---- MODULE Spec2Model ----
(***************************************************************************)
(* noveltui: the document model (chapter segmentation, bookmark index,     *)
(* bookmark toggling and persistence) and the three-pane navigation state  *)
(* machine of src/app.rs, src/chapter.rs and src/bookmark.rs.              *)
(*                                                                         *)
(* A line of text is a sequence of one-character strings.  Three Unicode   *)
(* characters of the source are written with ASCII stand-ins, because the  *)
(* module is ASCII: "*" is the bookmark glyph U+1F516, "D" is U+7B2C (the  *)
(* first character of the localized header) and "Z" is U+7AE0 (the one     *)
(* after the number).  None of the three is whitespace, a digit, a         *)
(* separator of the generic header pattern or a letter of "chapter", as in *)
(* the source.  Indices of the program (usize) are kept 0-based; TLA+      *)
(* sequences are 1-based, so element i of a Vec v is v[i + 1].             *)
(***************************************************************************)
EXTENDS Integers, Sequences, FiniteSets, TLC

(***************************************************************************)
(* Bounds of the model.                                                    *)
(***************************************************************************)
\* the longest document, in lines
MaxLines == 3
\* the largest index given as a startup jump
MaxJump == 3

(***************************************************************************)
(* Characters and strings.                                                 *)
(***************************************************************************)
BOOKMARK_SYMBOL == "*"

DI == "D"

ZHANG == "Z"

NL == "\n"

\* Option<usize>::None of a ListState selection or of a startup argument
None == 0 - 1

IsWs(c) == c = " "

IsDigit(c) == c \in {"0", "1", "2", "3", "4", "5", "6", "7", "8", "9"}

\* the class [:\.\s-] of the generic header pattern
IsSep(c) == c \in {":", ".", "-"} \/ IsWs(c)

\* (?i): case folding of the letters of "chapter"
Lower(c) ==
    CASE c = "C" -> "c"
      [] c = "H" -> "h"
      [] c = "A" -> "a"
      [] c = "P" -> "p"
      [] c = "T" -> "t"
      [] c = "E" -> "e"
      [] c = "R" -> "r"
      [] OTHER -> c

Min(S) == CHOOSE x \in S : \A y \in S : x <= y

Max(S) == CHOOSE x \in S : \A y \in S : x >= y

\* str::trim_end
trim_end(s) ==
    LET keep == {i \in 1..Len(s) : ~IsWs(s[i])}
    IN  IF keep = {} THEN <<>> ELSE SubSeq(s, 1, Max(keep))

\* str::trim_start
trim_start(s) ==
    LET keep == {i \in 1..Len(s) : ~IsWs(s[i])}
    IN  IF keep = {} THEN <<>> ELSE SubSeq(s, Min(keep), Len(s))

\* str::trim
trim(s) == trim_start(trim_end(s))

\* str::starts_with / str::ends_with for a one-character pattern
starts_with(s, c) == Len(s) >= 1 /\ s[1] = c

ends_with(s, c) == Len(s) >= 1 /\ s[Len(s)] = c

\* str::rfind for a one-character pattern: the 0-based position of the last
\* occurrence, None when there is none
rfind(s, c) ==
    LET at == {i \in 1..Len(s) : s[i] = c}
    IN  IF at = {} THEN None ELSE Max(at) - 1

\* str::strip_prefix(BOOKMARK_SYMBOL).unwrap_or("")
strip_prefix_or_empty(s, c) ==
    IF starts_with(s, c) THEN SubSeq(s, 2, Len(s)) ELSE <<>>

\* the first position >= i (1-based) whose character is not in the class P,
\* Len(s) + 1 when there is none: a greedy P* from position i
RECURSIVE SkipWs(_, _)
SkipWs(s, i) == IF i <= Len(s) /\ IsWs(s[i]) THEN SkipWs(s, i + 1) ELSE i

RECURSIVE SkipDigits(_, _)
SkipDigits(s, i) == IF i <= Len(s) /\ IsDigit(s[i]) THEN SkipDigits(s, i + 1) ELSE i

RECURSIVE SkipSep(_, _)
SkipSep(s, i) == IF i <= Len(s) /\ IsSep(s[i]) THEN SkipSep(s, i + 1) ELSE i

DigitValue(c) ==
    CASE c = "0" -> 0 [] c = "1" -> 1 [] c = "2" -> 2 [] c = "3" -> 3
      [] c = "4" -> 4 [] c = "5" -> 5 [] c = "6" -> 6 [] c = "7" -> 7
      [] c = "8" -> 8 [] c = "9" -> 9

\* m.as_str().parse::<usize>().ok().unwrap_or(0), for the digit strings of the
\* model, which are far shorter than the 20 digits that overflow usize
RECURSIVE ParseUsize(_)
ParseUsize(ds) ==
    IF ds = <<>> THEN 0
    ELSE 10 * ParseUsize(SubSeq(ds, 1, Len(ds) - 1)) + DigitValue(ds[Len(ds)])

DigitChar(d) ==
    CASE d = 0 -> "0" [] d = 1 -> "1" [] d = 2 -> "2" [] d = 3 -> "3"
      [] d = 4 -> "4" [] d = 5 -> "5" [] d = 6 -> "6" [] d = 7 -> "7"
      [] d = 8 -> "8" [] d = 9 -> "9"

\* the {} of format! for a usize
RECURSIVE FormatUsize(_)
FormatUsize(n) ==
    IF n < 10 THEN <<DigitChar(n)>>
    ELSE FormatUsize(n \div 10) \o <<DigitChar(n % 10)>>

(***************************************************************************)
(* src/chapter.rs: the Segmenter.                                          *)
(***************************************************************************)
\* an Option is the empty sequence (None) or a one-element sequence (Some)
IsSome(o) == o # <<>>

\* re_cn.captures(line): ^\s*D\s*(\d+)\s*Z(?:\s*(.*))?$ ; the classes that
\* follow one another are disjoint, so the greedy match is the only one
re_cn(line) ==
    LET a == SkipWs(line, 1)
        b == SkipWs(line, a + 1)
        c == SkipDigits(line, b)
        d == SkipWs(line, c)
    IN  IF /\ a <= Len(line) /\ line[a] = DI
           /\ c > b
           /\ d <= Len(line) /\ line[d] = ZHANG
        THEN <<[num |-> SubSeq(line, b, c - 1),
                rest |-> SubSeq(line, SkipWs(line, d + 1), Len(line))]>>
        ELSE <<>>

CHAPTER_WORD == <<"c", "h", "a", "p", "t", "e", "r">>

\* re_en.captures(line): (?i)^\s*chapter\s*(\d+)\s*[:\.\s-]*\s*(.*)?$
re_en(line) ==
    LET a == SkipWs(line, 1)
        w == Len(CHAPTER_WORD)
        b == SkipWs(line, a + w)
        c == SkipDigits(line, b)
    IN  IF /\ a + w - 1 <= Len(line)
           /\ \A k \in 1..w : Lower(line[a + k - 1]) = CHAPTER_WORD[k]
           /\ c > b
        THEN <<[num |-> SubSeq(line, b, c - 1),
                rest |-> SubSeq(line, SkipSep(line, c), Len(line))]>>
        ELSE <<>>

\* re_cn.captures(line).or_else(|| re_en.captures(line))
captures(line) == IF IsSome(re_cn(line)) THEN re_cn(line) ELSE re_en(line)

IsHeader(line) == IsSome(captures(line))

\* the title of a header line, lines 24-39
Title(line) ==
    LET caps == captures(line)[1]
        num == ParseUsize(caps.num)
        rest == trim(caps.rest)
        is_cn == IsSome(re_cn(line))
        label == IF is_cn THEN <<DI>> \o FormatUsize(num) \o <<ZHANG>>
                 ELSE <<"C", "h", "a", "p", "t", "e", "r", " ">> \o FormatUsize(num)
    IN  IF rest = <<>> THEN label ELSE label \o <<" ">> \o rest

\* the Chapter opened at header line `line` with index i
NewChapter(line, i) ==
    [number |-> ParseUsize(captures(line)[1].num),
     title |-> Title(line),
     start_line |-> i,
     content |-> <<line>>]

\* mutant: the chapter open at the end of the input is not pushed
RECURSIVE parse_from_no_close(_, _, _, _)
parse_from_no_close(lines, i, chapters, current) ==
    IF i >= Len(lines)
    THEN chapters
    ELSE LET line == lines[i + 1]
         IN  IF IsHeader(line)
             THEN parse_from_no_close(lines, i + 1,
                                      IF IsSome(current) THEN Append(chapters, current[1])
                                      ELSE chapters,
                                      <<NewChapter(line, i)>>)
             ELSE parse_from_no_close(lines, i + 1, chapters,
                                      IF IsSome(current)
                                      THEN <<[current[1] EXCEPT !.content = Append(@, line)]>>
                                      ELSE current)

\* the loop of parse_lines from index i on, with the chapters pushed so far and
\* the chapter being built (an Option)
RECURSIVE parse_from(_, _, _, _)
parse_from(lines, i, chapters, current) ==
    IF i >= Len(lines)
    THEN IF IsSome(current) THEN Append(chapters, current[1]) ELSE chapters
    ELSE LET line == lines[i + 1]
         IN  IF IsHeader(line)
             THEN parse_from(lines, i + 1,
                             IF IsSome(current) THEN Append(chapters, current[1])
                             ELSE chapters,
                             <<NewChapter(line, i)>>)
             ELSE parse_from(lines, i + 1, chapters,
                             IF IsSome(current)
                             THEN <<[current[1] EXCEPT !.content = Append(@, line)]>>
                             ELSE current)

parse_lines(lines) == parse_from(lines, 0, <<>>, <<>>)

(***************************************************************************)
(* src/bookmark.rs: the Bookmark Index.                                    *)
(***************************************************************************)
\* mutant: the glyph is looked for at the end of the line
IsBookmarkLine_at_end(line) == ends_with(trim(line), BOOKMARK_SYMBOL)

\* bookmark.rs line 16: whether a line is a bookmark
IsBookmarkLine(line) == starts_with(trim(line), BOOKMARK_SYMBOL)

NewBookmark(i, j, line) ==
    [chapter_index |-> i,
     line_in_chapter |-> j,
     line_content |-> trim(strip_prefix_or_empty(trim(line), BOOKMARK_SYMBOL))]

\* the two nested loops of parse_bookmarks, from chapter i, line j on
RECURSIVE scan_from(_, _, _, _)
scan_from(chapters, i, j, bookmarks) ==
    IF i >= Len(chapters) THEN bookmarks
    ELSE IF j >= Len(chapters[i + 1].content)
         THEN scan_from(chapters, i + 1, 0, bookmarks)
         ELSE LET line == chapters[i + 1].content[j + 1]
              IN  scan_from(chapters, i, j + 1,
                            IF IsBookmarkLine(line)
                            THEN Append(bookmarks, NewBookmark(i, j, line))
                            ELSE bookmarks)

parse_bookmarks(chapters) == scan_from(chapters, 0, 0, <<>>)

(***************************************************************************)
(* Text and lines: str::lines of load_file and join("\n") of save_file.    *)
(***************************************************************************)
\* lines.join("\n")
RECURSIVE join(_)
join(lines) ==
    IF lines = <<>> THEN <<>>
    ELSE IF Len(lines) = 1 THEN lines[1]
         ELSE lines[1] \o <<NL>> \o join(Tail(lines))

\* content.lines(): the text is cut at every "\n"; a final line with no
\* "\n" after it counts when it is not empty
RECURSIVE str_lines(_)
str_lines(text) ==
    IF text = <<>> THEN <<>>
    ELSE LET nls == {i \in 1..Len(text) : text[i] = NL}
         IN  IF nls = {} THEN <<text>>
             ELSE <<SubSeq(text, 1, Min(nls) - 1)>>
                  \o str_lines(SubSeq(text, Min(nls) + 1, Len(text)))

(***************************************************************************)
(* The inputs: the text of the file and the startup arguments.             *)
(***************************************************************************)
\* the lines the documents of Spec are made of: a header, text with
\* whitespace around it, a line that begins with the glyph and a line that
\* is the glyph alone (the toggles make further lines of them, the empty
\* line among them)
LinePool ==
    { <<"C", "h", "a", "p", "t", "e", "r", " ", "1">>,
      <<" ", "a", " ">>,
      <<BOOKMARK_SYMBOL, " ", "a">>,
      <<BOOKMARK_SYMBOL>> }

\* the lines the documents of SpecSeg are made of: headers of both patterns,
\* with and without a title, lines that only look like headers, and text
SegPool ==
    { <<"c", "H", "a", "p", "t", "e", "r", "7">>,
      <<" ", "C", "h", "a", "p", "t", "e", "r", " ", "1", "2", ":", " ", "t", " ">>,
      <<DI, "2", ZHANG>>,
      <<" ", DI, " ", "3", " ", ZHANG, " ", "t", " ", "a">>,
      <<"C", "h", "a", "p", "t", "e", "r", " ", "t">>,
      <<DI, ZHANG, "1">>,
      <<"a", " ", BOOKMARK_SYMBOL>>,
      <<>> }

RECURSIVE SeqsUpTo(_, _)
SeqsUpTo(S, n) ==
    IF n = 0 THEN {<<>>}
    ELSE LET shorter == SeqsUpTo(S, n - 1)
         IN  shorter \cup {Append(d, x) : d \in {e \in shorter : Len(e) = n - 1}, x \in S}

\* the texts the file may hold
Files == {join(d) : d \in SeqsUpTo(LinePool, MaxLines)}

SegFiles == {join(d) : d \in SeqsUpTo(SegPool, MaxLines)}

\* Option<usize> of args.bookmark and args.chapter
JumpArgs == {None} \cup 0..MaxJump

(***************************************************************************)
(* The state: the fields of App, the backing file, and where run() is.     *)
(***************************************************************************)
VARIABLES
    running, lines, view_offset, chapters, toc_state, view_lines,
    content_state, focus, bookmarks, bookmark_state, show_bookmark_menu,
    show_tilte_footer, initial_bookmark_jump, initial_chapter_jump,
    file,       \* the text of the file at file_path
    writable,   \* whether fs::write to file_path succeeds
    pc,         \* the position of run(): new, jumps, loop, done, error, panic
    err,        \* the Err run() returned, an Option
    last,       \* the last command handle_crossterm_event handled
    tog         \* the toggles that just ran on one line: where, the text before,
                \* and the outcome of save_file (none when it was not called)

appvars ==
    <<running, lines, view_offset, chapters, toc_state, view_lines,
      content_state, focus, bookmarks, bookmark_state, show_bookmark_menu,
      show_tilte_footer, initial_bookmark_jump, initial_chapter_jump>>

vars == <<appvars, file, writable, pc, err, last, tog>>

\* the four fields select_chapter writes
Nav ==
    [view_lines |-> view_lines, view_offset |-> view_offset,
     toc_state |-> toc_state, content_state |-> content_state]

SetNav(n) ==
    /\ view_lines' = n.view_lines
    /\ view_offset' = n.view_offset
    /\ toc_state' = n.toc_state
    /\ content_state' = n.content_state

\* App::new(args), with the file one of F and each argument one of J
InitWith(F, J) ==
    /\ running = FALSE
    /\ lines = <<>>
    /\ view_offset = 0
    /\ chapters = <<>>
    /\ toc_state = 0
    /\ view_lines = <<>>
    /\ content_state = 0
    /\ focus = "Toc"
    /\ bookmarks = <<>>
    /\ bookmark_state = None
    /\ show_bookmark_menu = FALSE
    /\ show_tilte_footer = TRUE
    /\ initial_bookmark_jump \in J
    /\ initial_chapter_jump \in J
    /\ file \in F
    /\ writable \in BOOLEAN
    /\ pc = "new"
    /\ err = <<>>
    /\ last = "none"
    /\ tog = <<>>

Init == InitWith(Files, JumpArgs)

(***************************************************************************)
(* Helpers of App.                                                         *)
(***************************************************************************)
\* mutant: the table of contents keeps its selection
select_chapter_no_toc(chs, n, idx) ==
    IF idx < Len(chs)
    THEN [view_lines |-> chs[idx + 1].content,
          view_offset |-> 0,
          toc_state |-> n.toc_state,
          content_state |-> IF chs[idx + 1].content # <<>> THEN 0 ELSE None]
    ELSE n

\* select_chapter(idx) on the navigation fields n, with self.chapters = chs
select_chapter(chs, n, idx) ==
    IF idx < Len(chs)
    THEN [view_lines |-> chs[idx + 1].content,
          view_offset |-> 0,
          toc_state |-> idx,
          content_state |-> IF chs[idx + 1].content # <<>> THEN 0 ELSE None]
    ELSE n

\* mutant: the line selected is the index of the bookmark's line in the buffer
jump_to_selected_bookmark_global(chs, bms, n, sel) ==
    IF sel # None /\ sel < Len(bms)
    THEN [select_chapter(chs, n, bms[sel + 1].chapter_index)
            EXCEPT !.content_state = chs[bms[sel + 1].chapter_index + 1].start_line
                                         + bms[sel + 1].line_in_chapter]
    ELSE n

\* jump_to_selected_bookmark with self.bookmarks = bms, bookmark_state = sel
jump_to_selected_bookmark(chs, bms, n, sel) ==
    IF sel # None /\ sel < Len(bms)
    THEN [select_chapter(chs, n, bms[sel + 1].chapter_index)
            EXCEPT !.content_state = bms[sel + 1].line_in_chapter]
    ELSE n

\* usize::saturating_sub(1)
saturating_sub_1(n) == IF n = 0 THEN 0 ELSE n - 1

\* every command but a toggle that reaches a line
Handled(cmd) == last' = cmd /\ tog' = <<>>

\* mutant: the message has the index and the count the wrong way round
Error_swapped(kind, available, requested) ==
    <<[kind |-> kind, available |-> requested, requested |-> available]>>

\* the Err of run(): which jump failed, the count and the index of its message
Error(kind, available, requested) ==
    <<[kind |-> kind, available |-> available, requested |-> requested]>>

(***************************************************************************)
(* run(): load_file, handle_initial_jumps, the event loop.                 *)
(***************************************************************************)
\* load_file returns Ok, and run() sets running
Load ==
    /\ pc = "new"
    /\ lines' = str_lines(file)
    /\ chapters' = parse_lines(lines')
    /\ bookmarks' = parse_bookmarks(chapters')
    /\ bookmark_state' = IF bookmarks' # <<>> THEN 0 ELSE bookmark_state
    /\ IF chapters' # <<>>
       THEN SetNav(select_chapter(chapters', [Nav EXCEPT !.toc_state = 0], 0))
       ELSE SetNav([view_lines |-> lines',
                    view_offset |-> 0,
                    toc_state |-> None,
                    content_state |-> IF lines' # <<>> THEN 0 ELSE None])
    /\ running' = TRUE
    /\ pc' = "jumps"
    /\ UNCHANGED <<focus, show_bookmark_menu, show_tilte_footer,
                   initial_bookmark_jump, initial_chapter_jump,
                   file, writable, err, last, tog>>

\* load_file returns Err: the file cannot be read
LoadFail ==
    /\ pc = "new"
    /\ pc' = "error"
    /\ err' = Error("load", 0, 0)
    /\ UNCHANGED <<appvars, file, writable, last, tog>>

\* handle_initial_jumps, and the return of run() when it fails
HandleInitialJumps ==
    /\ pc = "jumps"
    /\ initial_chapter_jump' = None
    /\ initial_bookmark_jump' = None
    /\ CASE initial_chapter_jump # None /\ initial_bookmark_jump = None ->
                IF initial_chapter_jump < Len(chapters)
                THEN /\ SetNav(select_chapter(chapters, Nav,
                                              saturating_sub_1(initial_chapter_jump)))
                     /\ focus' = "Content"
                     /\ pc' = "loop"
                     /\ UNCHANGED <<bookmark_state, err>>
                ELSE /\ pc' = "error"
                     /\ err' = Error("chapter", Len(chapters), initial_chapter_jump)
                     /\ UNCHANGED <<view_lines, view_offset, toc_state, content_state,
                                    focus, bookmark_state>>
         [] initial_chapter_jump = None /\ initial_bookmark_jump # None ->
                IF initial_bookmark_jump < Len(bookmarks)
                THEN /\ bookmark_state' = saturating_sub_1(initial_bookmark_jump)
                     /\ SetNav(jump_to_selected_bookmark(chapters, bookmarks, Nav,
                                                         bookmark_state'))
                     /\ focus' = "Content"
                     /\ pc' = "loop"
                     /\ UNCHANGED err
                ELSE /\ pc' = "error"
                     /\ err' = Error("bookmark", Len(bookmarks), initial_bookmark_jump)
                     /\ UNCHANGED <<view_lines, view_offset, toc_state, content_state,
                                    focus, bookmark_state>>
         [] initial_chapter_jump = None /\ initial_bookmark_jump = None ->
                /\ pc' = "loop"
                /\ UNCHANGED <<view_lines, view_offset, toc_state, content_state,
                               focus, bookmark_state, err>>
         [] initial_chapter_jump # None /\ initial_bookmark_jump # None ->
                \* unreachable!() panics
                /\ pc' = "panic"
                /\ UNCHANGED <<view_lines, view_offset, toc_state, content_state,
                               focus, bookmark_state, err>>
    /\ UNCHANGED <<running, lines, chapters, bookmarks, show_bookmark_menu,
                   show_tilte_footer, file, writable, last, tog>>

(***************************************************************************)
(* handle_crossterm_event: one command per turn of the loop.  render()     *)
(* runs before it and reads the state.                                     *)
(***************************************************************************)
\* 'q' and Ctrl-C: running becomes false and the loop ends
Quit ==
    /\ pc = "loop"
    /\ running' = FALSE
    /\ pc' = "done"
    /\ Handled("quit")
    /\ UNCHANGED <<lines, view_offset, chapters, toc_state, view_lines,
                   content_state, focus, bookmarks, bookmark_state,
                   show_bookmark_menu, show_tilte_footer, initial_bookmark_jump,
                   initial_chapter_jump, file, writable, err>>

\* what a command that only moves cursors or focus leaves alone
UnchangedDocument ==
    UNCHANGED <<running, lines, chapters, bookmarks, initial_bookmark_jump,
                initial_chapter_jump, file, writable, pc, err>>

\* 's'
ToggleTitleFooter ==
    /\ pc = "loop"
    /\ show_tilte_footer' = ~show_tilte_footer
    /\ Handled("footer")
    /\ UnchangedDocument
    /\ UNCHANGED <<view_offset, toc_state, view_lines, content_state, focus,
                   bookmark_state, show_bookmark_menu>>

\* any other key or event
OtherEvent ==
    /\ pc = "loop"
    /\ Handled("other")
    /\ UNCHANGED <<appvars, file, writable, pc, err>>

\* mutant: focus-left stops at Toc
switch_focus_left_to_stop(f, show) ==
    CASE f = "Bookmark" -> "Content"
      [] f = "Content" -> "Toc"
      [] f = "Toc" -> "Toc"

\* mutant: focus-right goes from Bookmark back to Content
switch_focus_right_to_back(f, show) ==
    CASE f = "Toc" -> "Content"
      [] f = "Content" -> IF show THEN "Bookmark" ELSE "Toc"
      [] f = "Bookmark" -> "Content"

\* mutant: focus-right goes from Content to Bookmark whether or not the pane
\* is shown
switch_focus_right_to_any(f, show) ==
    CASE f = "Toc" -> "Content"
      [] f = "Content" -> "Bookmark"
      [] f = "Bookmark" -> "Toc"

\* mutant: Toc goes to Bookmark whether or not the pane is shown
switch_focus_left_to_any(f, show) ==
    CASE f = "Bookmark" -> "Content"
      [] f = "Content" -> "Toc"
      [] f = "Toc" -> "Bookmark"

\* the focus after switch_focus_left
switch_focus_left_to(f, show) ==
    CASE f = "Bookmark" -> "Content"
      [] f = "Content" -> "Toc"
      [] f = "Toc" -> IF show THEN "Bookmark" ELSE "Content"

\* 'h' and Left
SwitchFocusLeft ==
    /\ pc = "loop"
    /\ focus' = switch_focus_left_to(focus, show_bookmark_menu)
    /\ Handled("left")
    /\ UnchangedDocument
    /\ UNCHANGED <<view_offset, toc_state, view_lines, content_state,
                   bookmark_state, show_bookmark_menu, show_tilte_footer>>

switch_focus_right_to(f, show) ==
    CASE f = "Toc" -> "Content"
      [] f = "Content" -> IF show THEN "Bookmark" ELSE "Toc"
      [] f = "Bookmark" -> "Toc"

\* 'l' and Right
SwitchFocusRight ==
    /\ pc = "loop"
    /\ focus' = switch_focus_right_to(focus, show_bookmark_menu)
    /\ IF focus = "Content" /\ show_bookmark_menu
       THEN SetNav(jump_to_selected_bookmark(chapters, bookmarks, Nav, bookmark_state))
       ELSE UNCHANGED <<view_offset, toc_state, view_lines, content_state>>
    /\ Handled("right")
    /\ UnchangedDocument
    /\ UNCHANGED <<bookmark_state, show_bookmark_menu, show_tilte_footer>>

\* mutant: Move-up stops at the first chapter
move_toc_up_no_wrap(chs, n) ==
    IF n.toc_state # None /\ n.toc_state > 0
    THEN select_chapter(chs, n, n.toc_state - 1)
    ELSE n

\* move_toc_up on the navigation fields n
move_toc_up(chs, n) ==
    IF n.toc_state # None
    THEN IF n.toc_state > 0 THEN select_chapter(chs, n, n.toc_state - 1)
         ELSE IF chs # <<>> THEN select_chapter(chs, n, Len(chs) - 1)
         ELSE n
    ELSE n

move_toc_down(chs, n) ==
    IF n.toc_state # None
    THEN IF n.toc_state + 1 < Len(chs) THEN select_chapter(chs, n, n.toc_state + 1)
         ELSE IF chs # <<>> THEN select_chapter(chs, n, 0)
         ELSE n
    ELSE n

\* mutant: the previous chapter is entered at its first line
move_content_up_first_line(chs, n) ==
    IF n.content_state # None
    THEN IF n.content_state > 0
         THEN [n EXCEPT !.content_state = n.content_state - 1]
         ELSE IF n.toc_state # None /\ n.toc_state > 0
              THEN select_chapter(chs, n, n.toc_state - 1)
              ELSE n
    ELSE IF n.view_lines # <<>> THEN [n EXCEPT !.content_state = 0]
    ELSE n

move_content_up(chs, n) ==
    IF n.content_state # None
    THEN IF n.content_state > 0
         THEN [n EXCEPT !.content_state = n.content_state - 1]
         ELSE IF n.toc_state # None /\ n.toc_state > 0
              THEN LET m == select_chapter(chs, n, n.toc_state - 1)
                   IN  IF m.view_lines # <<>>
                       THEN [m EXCEPT !.content_state = Len(m.view_lines) - 1]
                       ELSE m
              ELSE n
    ELSE IF n.view_lines # <<>> THEN [n EXCEPT !.content_state = 0]
    ELSE n

\* mutant: past the last line of the last chapter the first chapter follows
move_content_down_wrap(chs, n) ==
    IF n.content_state # None
    THEN IF n.content_state + 1 < Len(n.view_lines)
         THEN [n EXCEPT !.content_state = n.content_state + 1]
         ELSE IF n.toc_state # None
              THEN select_chapter(chs, n, (n.toc_state + 1) % Len(chs))
              ELSE n
    ELSE IF n.view_lines # <<>> THEN [n EXCEPT !.content_state = 0]
    ELSE n

move_content_down(chs, n) ==
    IF n.content_state # None
    THEN IF n.content_state + 1 < Len(n.view_lines)
         THEN [n EXCEPT !.content_state = n.content_state + 1]
         ELSE IF n.toc_state # None /\ n.toc_state + 1 < Len(chs)
              THEN select_chapter(chs, n, n.toc_state + 1)
              ELSE n
    ELSE IF n.view_lines # <<>> THEN [n EXCEPT !.content_state = 0]
    ELSE n

\* the bookmark selection after move_bookmark_up / move_bookmark_down
move_bookmark_up_to(sel) == IF sel # None /\ sel > 0 THEN sel - 1 ELSE sel

\* mutant: Move-down on the last bookmark selects the first
move_bookmark_down_to_wrap(bms, sel) ==
    IF sel # None THEN (sel + 1) % Len(bms) ELSE sel

move_bookmark_down_to(bms, sel) ==
    IF sel # None /\ sel + 1 < Len(bms) THEN sel + 1 ELSE sel

\* 'k' and Up: handle_move_up
HandleMoveUp ==
    /\ pc = "loop"
    /\ CASE focus = "Toc" ->
                /\ SetNav(move_toc_up(chapters, Nav))
                /\ UNCHANGED bookmark_state
         [] focus = "Content" ->
                /\ SetNav(move_content_up(chapters, Nav))
                /\ UNCHANGED bookmark_state
         [] focus = "Bookmark" ->
                /\ bookmark_state' = move_bookmark_up_to(bookmark_state)
                /\ IF bookmark_state' # bookmark_state
                   THEN SetNav(jump_to_selected_bookmark(chapters, bookmarks, Nav,
                                                         bookmark_state'))
                   ELSE UNCHANGED <<view_offset, toc_state, view_lines, content_state>>
    /\ Handled("up")
    /\ UnchangedDocument
    /\ UNCHANGED <<focus, show_bookmark_menu, show_tilte_footer>>

\* 'j' and Down: handle_move_down
HandleMoveDown ==
    /\ pc = "loop"
    /\ CASE focus = "Toc" ->
                /\ SetNav(move_toc_down(chapters, Nav))
                /\ UNCHANGED bookmark_state
         [] focus = "Content" ->
                /\ SetNav(move_content_down(chapters, Nav))
                /\ UNCHANGED bookmark_state
         [] focus = "Bookmark" ->
                /\ bookmark_state' = move_bookmark_down_to(bookmarks, bookmark_state)
                /\ IF bookmark_state' # bookmark_state
                   THEN SetNav(jump_to_selected_bookmark(chapters, bookmarks, Nav,
                                                         bookmark_state'))
                   ELSE UNCHANGED <<view_offset, toc_state, view_lines, content_state>>
    /\ Handled("down")
    /\ UnchangedDocument
    /\ UNCHANGED <<focus, show_bookmark_menu, show_tilte_footer>>

\* Enter
HandleEnter ==
    /\ pc = "loop"
    /\ IF focus = "Toc" /\ toc_state # None
       THEN /\ SetNav(select_chapter(chapters, Nav, toc_state))
            /\ focus' = "Content"
       ELSE UNCHANGED <<view_offset, toc_state, view_lines, content_state, focus>>
    /\ Handled("enter")
    /\ UnchangedDocument
    /\ UNCHANGED <<bookmark_state, show_bookmark_menu, show_tilte_footer>>

\* mutant: 'b' shows and hides the pane and leaves the focus where it is
ToggleBookmarkMenu_keep_focus ==
    /\ pc = "loop"
    /\ show_bookmark_menu' = ~show_bookmark_menu
    /\ Handled("pane")
    /\ UnchangedDocument
    /\ UNCHANGED <<view_offset, toc_state, view_lines, content_state, focus,
                   bookmark_state, show_tilte_footer>>

\* 'b'
ToggleBookmarkMenu ==
    /\ pc = "loop"
    /\ show_bookmark_menu' = ~show_bookmark_menu
    /\ focus' = IF show_bookmark_menu' THEN "Bookmark" ELSE "Content"
    /\ Handled("pane")
    /\ UnchangedDocument
    /\ UNCHANGED <<view_offset, toc_state, view_lines, content_state,
                   bookmark_state, show_tilte_footer>>

(***************************************************************************)
(* toggle_bookmark_at_current_line and save_file.                          *)
(***************************************************************************)
\* mutant: blank lines are toggled like the others
is_blank_never(line) == FALSE

\* line 622: the lines a toggle leaves alone
is_blank(line) == trim(line) = <<>>

\* mutant: the whitespace before a removed glyph is kept
toggle_line_keep_ws(line) ==
    IF ends_with(trim(line), BOOKMARK_SYMBOL)
    THEN LET pos == rfind(line, BOOKMARK_SYMBOL)
         IN  IF pos # None THEN SubSeq(line, 1, pos) ELSE line
    ELSE trim_end(line) \o <<" ", BOOKMARK_SYMBOL>>

\* lines 626-636: the line after the toggle
toggle_line(line) ==
    IF ends_with(trim(line), BOOKMARK_SYMBOL)
    THEN LET pos == rfind(line, BOOKMARK_SYMBOL)
         IN  IF pos # None THEN trim_end(SubSeq(line, 1, pos)) ELSE line
    ELSE trim_end(line) \o <<" ", BOOKMARK_SYMBOL>>

\* mutant: the offset of the chapter in the buffer is forgotten
global_line_idx_no_start(chapter_start_line, line_idx_in_view) == line_idx_in_view

\* line 643
global_line_idx(chapter_start_line, line_idx_in_view) ==
    chapter_start_line + line_idx_in_view

\* mutant: the new line is put in front of the old one
set_at_insert(v, i, x) ==
    IF i < Len(v) THEN SubSeq(v, 1, i) \o <<x>> \o SubSeq(v, i + 1, Len(v)) ELSE v

\* Vec::get_mut(i) followed by an assignment through it
set_at(v, i, x) == IF i < Len(v) THEN [v EXCEPT ![i + 1] = x] ELSE v

\* mutant: a selection past the end of the new list is kept
reselect_bookmark_no_clamp(sel, bms) ==
    IF sel = None /\ bms # <<>> THEN 0 ELSE sel

\* lines 650-660: the bookmark selection after the list was recomputed
reselect_bookmark(sel, bms) ==
    IF sel = None /\ bms # <<>> THEN 0
    ELSE IF sel # None /\ sel >= Len(bms)
         THEN IF bms = <<>> THEN None ELSE Len(bms) - 1
         ELSE sel

\* fs::write(path, content): the whole text replaces the file, or the call
\* fails and the file is as it was
fs_write(content) == IF writable THEN content ELSE file

\* the Result of save_file
save_result == IF writable THEN "ok" ELSE "err"

\* mutant: the text written is the buffer as it was before the toggle
save_file_stale(ls) == file' = fs_write(join(lines))

\* save_file, called with self.lines = ls
save_file(ls) == file' = fs_write(join(ls))

\* mutant: the Err of save_file is unwrapped
after_save_unwrap(r) == IF r = "err" THEN "panic" ELSE "loop"

\* lines 662-667: where run() is once save_file has returned r; an Err is
\* printed to stderr and the loop goes on
after_save(r) == "loop"

\* the record of the toggles that ran one after the other on one line
PushToggle(c, k, line, write) ==
    LET e == [chapter |-> c, line |-> k, before |-> line, write |-> write]
    IN  IF tog # <<>> /\ tog[Len(tog)].chapter = c /\ tog[Len(tog)].line = k
        THEN <<tog[Len(tog)], e>>
        ELSE <<e>>

\* mutant: 'm' reaches the selected line whatever the focus
ReachesLine_any_focus ==
    /\ toc_state # None
    /\ content_state # None
    /\ toc_state < Len(chapters)
    /\ content_state < Len(chapters[toc_state + 1].content)

\* whether 'm' reaches a line: lines 607-621
ReachesLine ==
    /\ focus = "Content"
    /\ toc_state # None
    /\ content_state # None
    /\ toc_state < Len(chapters)
    /\ content_state < Len(chapters[toc_state + 1].content)

\* 'm'
ToggleBookmarkAtCurrentLine ==
    /\ pc = "loop"
    /\ IF ReachesLine
       THEN LET c == toc_state
                k == content_state
                line == chapters[c + 1].content[k + 1]
                new == toggle_line(line)
                g == global_line_idx(chapters[c + 1].start_line, k)
            IN  /\ last' = "mark"
                /\ tog' = PushToggle(c, k, line,
                                     IF is_blank(line) THEN "none" ELSE save_result)
                /\ IF is_blank(line)
                   THEN UNCHANGED <<chapters, view_lines, lines, bookmarks,
                                    bookmark_state, file, pc>>
                   ELSE /\ chapters' = [chapters EXCEPT ![c + 1].content[k + 1] = new]
                        /\ view_lines' = set_at(view_lines, k, new)
                        /\ lines' = set_at(lines, g, new)
                        /\ bookmarks' = parse_bookmarks(chapters')
                        /\ bookmark_state' = reselect_bookmark(bookmark_state, bookmarks')
                        /\ save_file(lines')
                        /\ pc' = after_save(save_result)
       ELSE /\ Handled("mark")
            /\ UNCHANGED <<chapters, view_lines, lines, bookmarks, bookmark_state,
                           file, pc>>
    /\ UNCHANGED <<running, view_offset, toc_state, content_state, focus,
                   show_bookmark_menu, show_tilte_footer, initial_bookmark_jump,
                   initial_chapter_jump, writable, err>>

Next ==
    \/ Load
    \/ LoadFail
    \/ HandleInitialJumps
    \/ Quit
    \/ ToggleBookmarkMenu
    \/ ToggleTitleFooter
    \/ ToggleBookmarkAtCurrentLine
    \/ SwitchFocusLeft
    \/ SwitchFocusRight
    \/ HandleMoveUp
    \/ HandleMoveDown
    \/ HandleEnter
    \/ OtherEvent

Spec == Init /\ [][Next]_vars

(***************************************************************************)
(* The Segmenter and the Bookmark Index on their own: load_file applied to *)
(* documents of both header patterns.                                      *)
(***************************************************************************)
InitSeg == InitWith(SegFiles, {None})

NextSeg == Load

SpecSeg == InitSeg /\ [][NextSeg]_vars

(***************************************************************************)
(* Properties.                                                             *)
(***************************************************************************)
\* the last toggle that reached a line, and the line it reached as it is now
LastToggle == tog[Len(tog)]

ToggledLine == chapters[LastToggle.chapter + 1].content[LastToggle.line + 1]

ToggledBufferLine ==
    lines[chapters[LastToggle.chapter + 1].start_line + LastToggle.line + 1]

\* C1: in every reachable state, every line k of every chapter's content is
\* the line of the buffer at start_line + k.
C1_ContentEqualsBuffer ==
    \A c \in 1..Len(chapters) :
        \A k \in 0..(Len(chapters[c].content) - 1) :
            /\ chapters[c].start_line + k < Len(lines)
            /\ chapters[c].content[k + 1] = lines[chapters[c].start_line + k + 1]

\* a toggle has just edited a line of a chapter that does not start the buffer
C1_Witness ==
    /\ tog # <<>>
    /\ LastToggle.write # "none"
    /\ chapters[LastToggle.chapter + 1].start_line > 0
    /\ LastToggle.line > 0

\* the bookmarks of the list that point at the line of the last toggle
BookmarksAtToggle ==
    {i \in 1..Len(bookmarks) :
        /\ bookmarks[i].chapter_index = LastToggle.chapter
        /\ bookmarks[i].line_in_chapter = LastToggle.line}

\* a line with text and no glyph in it
Unmarked(line) ==
    /\ trim(line) # <<>>
    /\ \A i \in 1..Len(line) : line[i] # BOOKMARK_SYMBOL

\* C2: after a toggle on a line with text and no glyph, the line is its text,
\* one space and the glyph, and the list holds one bookmark for that line with
\* the text as line_content; after a second toggle the line is as it was and
\* the list holds no bookmark for it.
C2_ToggleMakesBookmark ==
    /\ (tog # <<>> /\ Unmarked(LastToggle.before)) =>
            /\ ToggledLine = trim_end(LastToggle.before) \o <<" ", BOOKMARK_SYMBOL>>
            /\ Cardinality(BookmarksAtToggle) = 1
            /\ \A i \in BookmarksAtToggle :
                   bookmarks[i].line_content = trim(LastToggle.before)
    /\ (Len(tog) = 2 /\ Unmarked(tog[1].before) /\ tog[1].before = trim_end(tog[1].before)) =>
            /\ ToggledLine = tog[1].before
            /\ BookmarksAtToggle = {}

\* C3 as claimed: two toggles one after the other on one line leave it, in
\* the chapter and in the buffer, as it was before the first.
C3_TwoTogglesRestore ==
    Len(tog) = 2 => ToggledLine = tog[1].before /\ ToggledBufferLine = tog[1].before

\* the lines two toggles give back: a blank line; a line with no whitespace
\* at its end whose text does not end with the glyph; and such a line with one
\* space and the glyph after it
Restorable(line) ==
    \/ trim(line) = <<>>
    \/ /\ line = trim_end(line)
       /\ ~ends_with(line, BOOKMARK_SYMBOL)
    \/ /\ Len(line) >= 3
       /\ line[Len(line)] = BOOKMARK_SYMBOL
       /\ line[Len(line) - 1] = " "
       /\ ~IsWs(line[Len(line) - 2])
       /\ line[Len(line) - 2] # BOOKMARK_SYMBOL

\* C3 (amended): two toggles one after the other on one line leave it, in
\* the chapter and in the buffer, as it was before the first exactly when the
\* line was blank, or had no whitespace at its end and either no glyph at its
\* end or one space and the glyph after text; whitespace at the start of the
\* line is kept.
C3_TwoTogglesRestoreIfNormal ==
    Len(tog) = 2 =>
        /\ ToggledLine = ToggledBufferLine
        /\ (ToggledLine = tog[1].before) <=> Restorable(tog[1].before)

\* two toggles ran on a line that starts with whitespace, and gave it back
C3_Witness ==
    /\ Len(tog) = 2
    /\ tog[1].write # "none"
    /\ tog[2].write # "none"
    /\ IsWs(tog[1].before[1])
    /\ ToggledLine = tog[1].before

\* the places (chapter index, line index) of the chapters' lines whose trimmed
\* text begins with the glyph
MarkedPlaces ==
    {<<c, k>> \in (0..(Len(chapters) - 1)) \X (0..MaxLines) :
        /\ k < Len(chapters[c + 1].content)
        /\ starts_with(trim(chapters[c + 1].content[k + 1]), BOOKMARK_SYMBOL)}

\* C4: in every reachable state the bookmark list has one entry for each
\* chapter line whose trimmed text begins with the glyph and no other entry,
\* in the order of the chapters and then of the lines.
C4_BookmarksAreTheScan ==
    /\ {<<bookmarks[i].chapter_index, bookmarks[i].line_in_chapter>> :
            i \in 1..Len(bookmarks)} = MarkedPlaces
    /\ \A i \in 1..(Len(bookmarks) - 1) :
           \/ bookmarks[i].chapter_index < bookmarks[i + 1].chapter_index
           \/ /\ bookmarks[i].chapter_index = bookmarks[i + 1].chapter_index
              /\ bookmarks[i].line_in_chapter < bookmarks[i + 1].line_in_chapter

\* a toggle has just taken a line out of the list, and another bookmark is left
C4_Witness ==
    /\ tog # <<>>
    /\ LastToggle.write # "none"
    /\ starts_with(trim(LastToggle.before), BOOKMARK_SYMBOL)
    /\ BookmarksAtToggle = {}
    /\ bookmarks # <<>>

\* the indices of the header lines of the buffer
HeaderLines == {i \in 0..(Len(lines) - 1) : IsSome(captures(lines[i + 1]))}

\* C5: the chapters the Segmenter makes of a buffer have ascending
\* start_line, one chapter for each header line and starting at it, each
\* ending where the next begins and the last at the end of the buffer; lines
\* before the first header are in no chapter, and a buffer with no header
\* has no chapters.
C5_ChaptersPartitionBuffer ==
    pc = "jumps" =>
        /\ {chapters[c].start_line : c \in 1..Len(chapters)} = HeaderLines
        /\ Len(chapters) = Cardinality(HeaderLines)
        /\ \A c \in 1..(Len(chapters) - 1) :
               /\ chapters[c].start_line < chapters[c + 1].start_line
               /\ chapters[c].start_line + Len(chapters[c].content)
                      = chapters[c + 1].start_line
        /\ chapters # <<>> =>
               /\ chapters[Len(chapters)].start_line
                      + Len(chapters[Len(chapters)].content) = Len(lines)
               /\ \A i \in 0..(chapters[1].start_line - 1) : i \notin HeaderLines
        /\ HeaderLines = {} => chapters = <<>>

\* a buffer with a line before its first header and two chapters, one of each
\* header pattern
C5_Witness ==
    /\ pc = "jumps"
    /\ Len(chapters) = 2
    /\ chapters[1].start_line = 1
    /\ IsSome(re_cn(lines[2]))
    /\ ~IsSome(re_cn(lines[3]))

\* C6: in every reachable state, focus Bookmark means the bookmark pane is
\* visible.
C6_BookmarkFocusNeedsPane == focus = "Bookmark" => show_bookmark_menu

\* focus-left has moved the focus from Toc to Bookmark
C6_Witness == last = "left" /\ focus = "Bookmark"

\* everything but the record of the last command
statevars == <<appvars, file, writable, pc, err>>

AtFirstLine ==
    /\ focus = "Content"
    /\ chapters # <<>>
    /\ toc_state = 0
    /\ content_state = 0

AtLastLine ==
    /\ focus = "Content"
    /\ chapters # <<>>
    /\ toc_state = Len(chapters) - 1
    /\ content_state = Len(chapters[Len(chapters)].content) - 1

\* C7: in Content focus, Move-up on the first line of the first chapter and
\* Move-down on the last line of the last chapter change nothing.
C7_NoMoveAtDocumentEnds ==
    [][/\ (pc = "loop" /\ AtFirstLine /\ last' = "up") => UNCHANGED statevars
       /\ (pc = "loop" /\ AtLastLine /\ last' = "down") => UNCHANGED statevars]_vars

\* Move-down was just handled on the last line of the last of several chapters
C7_Witness == last = "down" /\ AtLastLine /\ Len(chapters) >= 2 /\ Len(view_lines) >= 2

\* C8: in Toc focus with N >= 1 chapters and chapter i selected, Move-up
\* selects chapter (i - 1) mod N and Move-down chapter (i + 1) mod N, and the
\* chapter selected is displayed with content selection 0.
C8_TocMoveWraps ==
    [][(/\ pc = "loop"
        /\ focus = "Toc"
        /\ Len(chapters) >= 1
        /\ toc_state \in 0..(Len(chapters) - 1)
        /\ last' \in {"up", "down"}) =>
            /\ toc_state' = IF last' = "up"
                            THEN (toc_state + Len(chapters) - 1) % Len(chapters)
                            ELSE (toc_state + 1) % Len(chapters)
            /\ view_lines' = chapters[toc_state' + 1].content
            /\ content_state' = 0]_vars

\* Move-up was just handled in Toc focus and the last of three chapters is
\* selected: it was chapter 0 before
C8_Witness ==
    /\ last = "up"
    /\ focus = "Toc"
    /\ Len(chapters) = 3
    /\ toc_state = 2
    /\ ~show_bookmark_menu

\* C9: a toggle on a line that is empty after trimming changes nothing.
C9_ToggleBlankLine ==
    [][(/\ pc = "loop"
        /\ ReachesLine
        /\ trim(chapters[toc_state + 1].content[content_state + 1]) = <<>>
        /\ last' = "mark") => UNCHANGED statevars]_vars

\* a toggle has just reached a blank line of a document that has bookmarks
C9_Witness ==
    /\ last = "mark"
    /\ tog # <<>>
    /\ trim(LastToggle.before) = <<>>
    /\ bookmarks # <<>>

\* C10: a startup jump whose index is larger than the number of chapters
\* (of bookmarks) makes run() return an error that holds the index and the
\* number; nothing happens after an error and no command was handled before.
C10_JumpPastEndIsFatal ==
    [][/\ (/\ pc = "jumps"
           /\ initial_chapter_jump # None
           /\ initial_bookmark_jump = None
           /\ initial_chapter_jump > Len(chapters)) =>
               /\ pc' = "error"
               /\ err' = <<[kind |-> "chapter", available |-> Len(chapters),
                            requested |-> initial_chapter_jump]>>
       /\ (/\ pc = "jumps"
           /\ initial_bookmark_jump # None
           /\ initial_chapter_jump = None
           /\ initial_bookmark_jump > Len(bookmarks)) =>
               /\ pc' = "error"
               /\ err' = <<[kind |-> "bookmark", available |-> Len(bookmarks),
                            requested |-> initial_bookmark_jump]>>
       /\ pc = "error" => UNCHANGED vars
       /\ pc' = "error" => last' = "none"]_vars

\* run() has returned the error of a chapter jump past the end of a document
\* with chapters
C10_Witness ==
    /\ pc = "error"
    /\ err # <<>>
    /\ err[1].kind = "chapter"
    /\ err[1].available >= 2
    /\ err[1].requested > err[1].available

\* C11 as claimed: a startup jump whose index is a valid index of the chapter
\* list (of the bookmark list) lands on the element with that index: the
\* chapter jump displays chapter idx and selects it in the table of contents;
\* the bookmark jump displays the chapter of bookmark idx, selects the
\* bookmark's line and sets focus Content.
C11_JumpLandsOnIndex ==
    [][/\ (/\ pc = "jumps"
           /\ initial_chapter_jump # None
           /\ initial_bookmark_jump = None
           /\ initial_chapter_jump < Len(chapters)) =>
               /\ pc' = "loop"
               /\ toc_state' = initial_chapter_jump
               /\ view_lines' = chapters[initial_chapter_jump + 1].content
       /\ (/\ pc = "jumps"
           /\ initial_bookmark_jump # None
           /\ initial_chapter_jump = None
           /\ initial_bookmark_jump < Len(bookmarks)) =>
               /\ pc' = "loop"
               /\ toc_state' = bookmarks[initial_bookmark_jump + 1].chapter_index
               /\ view_lines' = chapters[toc_state' + 1].content
               /\ content_state' = bookmarks[initial_bookmark_jump + 1].line_in_chapter
               /\ focus' = "Content"]_vars

C13_TocSelectionIsDisplayed ==
    /\ chapters # <<>> =>
           /\ toc_state \in 0..(Len(chapters) - 1)
           /\ Len(view_lines) = Len(chapters[toc_state + 1].content)
           /\ \A k \in 1..Len(view_lines) :
                  view_lines[k] = chapters[toc_state + 1].content[k]
    /\ \A idx \in Len(chapters)..(MaxLines + 1) :
           select_chapter(chapters, Nav, idx) = Nav

\* Move-down in Content focus has just gone from the last line of the first
\* chapter to the second chapter, whose content is another
C13_Witness ==
    /\ last = "down"
    /\ focus = "Content"
    /\ Len(chapters) >= 2
    /\ toc_state = 1
    /\ content_state = 0
    /\ view_lines # chapters[1].content

\* C14: in every reachable state the bookmark selection is none exactly when
\* the bookmark list is empty, and otherwise an index of the list; so it is
\* after load_file, after a startup jump to a bookmark and after every toggle
\* that changes the list.
C14_BookmarkSelectionInList ==
    /\ bookmark_state = None <=> bookmarks = <<>>
    /\ bookmark_state # None => bookmark_state \in 0..(Len(bookmarks) - 1)

\* a toggle has just taken the last bookmark out of the list
C14_Witness ==
    /\ last = "mark"
    /\ tog # <<>>
    /\ LastToggle.write # "none"
    /\ starts_with(trim(LastToggle.before), BOOKMARK_SYMBOL)
    /\ bookmarks = <<>>
    /\ bookmark_state = None

\* C15: in Content focus, Move-up on line 0 of chapter i > 0 displays chapter
\* i - 1 and selects its last line; Move-down on the last line of a chapter
\* i that is not the last displays chapter i + 1 and selects line 0; a move
\* from a line that is not at that edge of the view changes the content
\* selection by one and leaves the chapter displayed as it is.
C15_ContentMoveCrossesChapters ==
    [][(pc = "loop" /\ focus = "Content" /\ content_state # None) =>
           /\ (/\ last' = "up"
               /\ content_state = 0
               /\ toc_state # None
               /\ toc_state > 0) =>
                   /\ toc_state' = toc_state - 1
                   /\ view_lines' = chapters[toc_state].content
                   /\ content_state' = Len(chapters[toc_state].content) - 1
           /\ (/\ last' = "down"
               /\ content_state = Len(view_lines) - 1
               /\ toc_state # None
               /\ toc_state + 1 < Len(chapters)) =>
                   /\ toc_state' = toc_state + 1
                   /\ view_lines' = chapters[toc_state + 2].content
                   /\ content_state' = 0
           /\ (last' = "up" /\ content_state > 0) =>
                   /\ content_state' = content_state - 1
                   /\ UNCHANGED <<toc_state, view_lines>>
           /\ (last' = "down" /\ content_state + 1 < Len(view_lines)) =>
                   /\ content_state' = content_state + 1
                   /\ UNCHANGED <<toc_state, view_lines>>]_vars

\* Move-up in Content focus has just gone from the second chapter to the last
\* line of the first, which has two lines
C15_Witness ==
    /\ last = "up"
    /\ focus = "Content"
    /\ Len(chapters) >= 2
    /\ toc_state = 0
    /\ Len(view_lines) = 2
    /\ content_state = 1

\* C16: focus-left takes Bookmark to Content, Content to Toc, and Toc to
\* Bookmark when the bookmark pane is visible and to Content when it is not;
\* it leaves the three selections, the chapter displayed, the visibility of
\* the pane and the line buffer as they are.
C16_FocusLeft ==
    [][(pc = "loop" /\ last' = "left") =>
           /\ focus = "Bookmark" => focus' = "Content"
           /\ focus = "Content" => focus' = "Toc"
           /\ (focus = "Toc" /\ show_bookmark_menu) => focus' = "Bookmark"
           /\ (focus = "Toc" /\ ~show_bookmark_menu) => focus' = "Content"
           /\ UNCHANGED <<toc_state, content_state, bookmark_state, view_lines,
                          view_offset, show_bookmark_menu, lines, chapters,
                          bookmarks, file>>]_vars

\* focus-left has just gone from Toc to Content, the pane hidden, in a
\* document with chapters and a line selected that is not the first
C16_Witness ==
    /\ last = "left"
    /\ focus = "Content"
    /\ ~show_bookmark_menu
    /\ chapters # <<>>
    /\ content_state # None
    /\ content_state > 0

\* C17: focus-right takes Toc to Content, Bookmark to Toc, and Content to
\* Bookmark when the bookmark pane is visible and to Toc when it is not; only
\* from Content to Bookmark and with a bookmark selected, the chapter
\* displayed and the table-of-contents selection become the chapter of that
\* bookmark and the content selection its line; otherwise no selection
\* changes.
C17_FocusRight ==
    [][(pc = "loop" /\ last' = "right") =>
           /\ focus = "Toc" => focus' = "Content"
           /\ focus = "Bookmark" => focus' = "Toc"
           /\ (focus = "Content" /\ show_bookmark_menu) => focus' = "Bookmark"
           /\ (focus = "Content" /\ ~show_bookmark_menu) => focus' = "Toc"
           /\ IF focus = "Content" /\ show_bookmark_menu /\ bookmark_state # None
              THEN /\ toc_state' = bookmarks[bookmark_state + 1].chapter_index
                   /\ view_lines' = chapters[toc_state' + 1].content
                   /\ content_state' = bookmarks[bookmark_state + 1].line_in_chapter
              ELSE UNCHANGED <<toc_state, view_lines, content_state>>
           /\ UNCHANGED <<bookmark_state, show_bookmark_menu, lines, chapters,
                          bookmarks, file>>]_vars

\* focus-right has just gone from Content to Bookmark with a bookmark of the
\* second chapter selected
C17_Witness ==
    /\ last = "right"
    /\ focus = "Bookmark"
    /\ bookmark_state # None
    /\ Len(chapters) = 2
    /\ toc_state = 1
    /\ bookmarks[bookmark_state + 1].chapter_index = 1
    /\ content_state = bookmarks[bookmark_state + 1].line_in_chapter

\* C18: in Bookmark focus, Move-up on bookmark 0 and Move-down on the last
\* bookmark change nothing, as does a move with no bookmark selected; any
\* other move changes the bookmark selection by one, and then the chapter
\* displayed and the table-of-contents selection are the chapter of the
\* bookmark now selected, and the content selection is its line.
C18_BookmarkMove ==
    [][(pc = "loop" /\ focus = "Bookmark" /\ last' \in {"up", "down"}) =>
           IF \/ bookmark_state = None
              \/ last' = "up" /\ bookmark_state = 0
              \/ last' = "down" /\ bookmark_state = Len(bookmarks) - 1
           THEN UNCHANGED statevars
           ELSE /\ bookmark_state' = IF last' = "up" THEN bookmark_state - 1
                                     ELSE bookmark_state + 1
                /\ bookmark_state' \in 0..(Len(bookmarks) - 1)
                /\ toc_state' = bookmarks[bookmark_state' + 1].chapter_index
                /\ view_lines' = chapters[toc_state' + 1].content
                /\ content_state' = bookmarks[bookmark_state' + 1].line_in_chapter
                /\ UNCHANGED <<focus, show_bookmark_menu, lines, chapters,
                               bookmarks, file>>]_vars

\* Move-down in Bookmark focus has just selected the second bookmark, and
\* its line is selected in the view
C18_Witness ==
    /\ last = "down"
    /\ focus = "Bookmark"
    /\ bookmark_state = 1
    /\ toc_state = bookmarks[2].chapter_index
    /\ content_state = bookmarks[2].line_in_chapter

\* C19: toggle-bookmark-pane flips the visibility of the pane; when the pane
\* becomes visible the focus becomes Bookmark and when it becomes hidden the
\* focus becomes Content, whatever the focus was; no selection, the chapter
\* displayed and the line buffer do not change.
C19_TogglePane ==
    [][(pc = "loop" /\ last' = "pane") =>
           /\ show_bookmark_menu' = ~show_bookmark_menu
           /\ ~show_bookmark_menu => focus' = "Bookmark"
           /\ show_bookmark_menu => focus' = "Content"
           /\ UNCHANGED <<toc_state, content_state, bookmark_state, view_lines,
                          view_offset, lines, chapters, bookmarks, file>>]_vars

\* the pane has just been hidden, and the focus is Content in a document
\* with a bookmark selected
C19_Witness ==
    /\ last = "pane"
    /\ ~show_bookmark_menu
    /\ focus = "Content"
    /\ bookmark_state # None

\* C20: a toggle at the cursor with focus Toc or Bookmark, or with no chapter
\* or no content line selected, changes nothing: the line buffer, the chapters, the bookmark
\* list, the selections and the file are as they were, and no write is
\* attempted.
C20_ToggleNeedsContentFocus ==
    [][(/\ pc = "loop"
        /\ last' = "mark"
        /\ (focus # "Content" \/ toc_state = None \/ content_state = None)) =>
            /\ UNCHANGED statevars
            /\ tog' = <<>>]_vars

\* 'm' has just been handled in Bookmark focus with a bookmark selected
C20_Witness ==
    /\ last = "mark"
    /\ focus = "Bookmark"
    /\ bookmark_state # None
    /\ content_state # None
    /\ tog = <<>>

\* the step is a toggle that edits a line
EditingToggle ==
    /\ pc = "loop"
    /\ last' = "mark"
    /\ ReachesLine
    /\ trim(chapters[toc_state + 1].content[content_state + 1]) # <<>>

\* C21: every toggle that edits a line attempts one write of the whole
\* buffer within its step; when the write succeeds the file is the lines of
\* the buffer as they are after the edit, in order and joined by newlines,
\* and when it fails the file is as it was; the file never becomes a text
\* that is not the buffer of that moment; and no other command changes the
\* buffer or the file, so the file stays the buffer until the next toggle.
C21_WholeBufferWrite ==
    [][pc = "loop" =>
           /\ EditingToggle =>
                  /\ lines' # lines
                  /\ tog'[Len(tog')].write \in {"ok", "err"}
                  /\ tog'[Len(tog')].write = "ok" <=> writable
                  /\ writable => file' = join(lines')
                  /\ ~writable => file' = file
           /\ file' # file => file' = join(lines')
           /\ ~EditingToggle => UNCHANGED <<lines, file>>]_vars

\* two toggles have edited two lines of a writable file, and the file is the
\* buffer
C21_Witness ==
    /\ writable
    /\ last = "mark"
    /\ Len(tog) = 1
    /\ LastToggle.write = "ok"
    /\ file = join(lines)
    /\ Len(lines) = 3
    /\ Cardinality({i \in 1..Len(lines) : ends_with(lines[i], BOOKMARK_SYMBOL)
                                            /\ Len(lines[i]) > 3}) >= 2

\* C22 as claimed: when both an initial chapter index and an initial bookmark
\* index are given, run() returns a startup error, as it does for an index
\* past the end; it does not crash and performs neither jump.
C22_BothJumpsIsStartupError ==
    [][(/\ pc = "jumps"
        /\ initial_chapter_jump # None
        /\ initial_bookmark_jump # None) =>
            /\ pc' = "error"
            /\ err' # <<>>
            /\ UNCHANGED <<toc_state, content_state, bookmark_state, view_lines,
                           focus>>]_vars

\* C23: no step after load_file changes the number of lines of the buffer,
\* the number of chapters, or the number, title, start_line and content
\* length of a chapter; a step that changes the buffer is a toggle and
\* changes only the line at start_line + content selection of the chapter
\* selected; lines before the first header, and the lines of a document
\* without chapters, never change.
C23_ToggleEditsOneLineInPlace ==
    [][(pc = "jumps" \/ pc = "loop") =>
           /\ Len(lines') = Len(lines)
           /\ Len(chapters') = Len(chapters)
           /\ \A c \in 1..Len(chapters) :
                  /\ chapters'[c].number = chapters[c].number
                  /\ chapters'[c].title = chapters[c].title
                  /\ chapters'[c].start_line = chapters[c].start_line
                  /\ Len(chapters'[c].content) = Len(chapters[c].content)
           /\ lines' # lines =>
                  /\ last' = "mark"
                  /\ focus = "Content"
                  /\ toc_state \in 0..(Len(chapters) - 1)
                  /\ content_state \in 0..(Len(chapters[toc_state + 1].content) - 1)
                  /\ \A i \in 1..Len(lines) :
                         i # chapters[toc_state + 1].start_line + content_state + 1
                             => lines'[i] = lines[i]
           /\ chapters # <<>> =>
                  \A i \in 1..chapters[1].start_line : lines'[i] = lines[i]
           /\ chapters = <<>> => lines' = lines]_vars

\* a toggle has just edited the header line of the first chapter, which is
\* not the first line of the buffer
C23_Witness ==
    /\ last = "mark"
    /\ tog # <<>>
    /\ LastToggle.write # "none"
    /\ LastToggle.chapter = 0
    /\ LastToggle.line = 0
    /\ chapters[1].start_line > 0
    /\ ToggledBufferLine # LastToggle.before
    /\ IsSome(captures(LastToggle.before))

\* load_file has returned Ok
Loaded == pc # "new" /\ ~(pc = "error" /\ err # <<>> /\ err[1].kind = "load")

\* C24: in every reachable state after load_file the content selection is
\* none exactly when the view has no lines, and otherwise an index of a line
\* of the view.
C24_ContentSelectionInView ==
    Loaded =>
        /\ content_state = None <=> view_lines = <<>>
        /\ content_state # None => content_state \in 0..(Len(view_lines) - 1)

\* Move-down was just handled in Content focus on an empty document
C24_EmptyViewWitness ==
    /\ last = "down"
    /\ focus = "Content"
    /\ view_lines = <<>>
    /\ content_state = None

\* a bookmark that is not on the first line of its chapter has just been
\* jumped to from Content focus
C24_Witness ==
    /\ last = "right"
    /\ focus = "Bookmark"
    /\ bookmark_state # None
    /\ content_state = Len(view_lines) - 1
    /\ content_state > 0
    /\ chapters[toc_state + 1].start_line > 0

\* C25: on the focus, focus-left and focus-right undo each other in every
\* reachable state, the pane visible or hidden: after a focus-right step
\* focus-left gives the focus the step started from, and after a focus-left
\* step focus-right does.
C25_FocusLeftRightInverse ==
    [][pc = "loop" =>
           /\ last' = "right" =>
                  switch_focus_left_to(focus', show_bookmark_menu') = focus
           /\ last' = "left" =>
                  switch_focus_right_to(focus', show_bookmark_menu') = focus]_vars

\* focus-right has just gone from Content to Toc, the pane hidden, in a
\* document with chapters
C25_Witness ==
    /\ last = "right"
    /\ focus = "Toc"
    /\ ~show_bookmark_menu
    /\ chapters # <<>>

====
